---- MODULE Spec2Model ----
(***************************************************************************)
(* A model of errudite/processor/spacy_annotator.py: the two custom        *)
(* tokenizers, the vocabulary cache (dump / load), the model loader        *)
(* (load_lang_model), the package check (is_package), the constructor of   *)
(* SpacyAnnotator and remove_stopwords.                                    *)
(*                                                                         *)
(* Strings are sequences of one-character strings, so that split, join,    *)
(* lower and replace are computed character by character.  A model         *)
(* identifier is the sequence of its underscore-separated segments         *)
(* ("en_coref_sm" is <<"en", "coref", "sm">>): the marker 'coref' holds no *)
(* underscore, so it occurs in an identifier iff it occurs in a segment.   *)
(***************************************************************************)
EXTENDS Integers, Sequences, FiniteSets, TLC

VARIABLES
    \* ---- the spaCy installation (environment of load_lang_model)
    pkgState,       \* identifier -> "ok" | "missing" | "broken"
    \* ---- one call of load_lang_model
    pc,             \* position of the running call
    caller,         \* "static" (called directly) | "init" (called by __init__)
    lang,           \* the identifier the outermost call was given
    cur,            \* the identifier of the innermost frame
    depth,          \* number of recursive calls made so far
    log,            \* the external calls made, in order, with their outcomes
    result,         \* what the outermost call returned or raised
    \* ---- the annotator
    pre_tokenized, use_whitespace,
    vocab,          \* self.model.vocab: the set of lexemes it holds
    tokenizer,      \* self.model.tokenizer
    events,         \* the steps __init__ has run, in order
    lastOp,         \* the last operation completed on the annotator
    cacheFile,      \* the file vocab.pkl
    dumped,         \* the vocabulary of the last dump(), not valid once another program wrote the file
    \* ---- is_package
    packages, name, ret,
    \* ---- remove_stopwords
    sentence_str, tokens, use_lemma, used, modelCalls, out,
    \* ---- WhitespaceTokenizer.__call__
    text, doc

vars == <<pkgState, pc, caller, lang, cur, depth, log, result,
          pre_tokenized, use_whitespace, vocab, tokenizer, events, lastOp,
          cacheFile, dumped, packages, name, ret,
          sentence_str, tokens, use_lemma, used, modelCalls, out, text, doc>>

loaderVars == <<pkgState, pc, caller, lang, cur, depth, log, result>>
annotVars  == <<pre_tokenized, use_whitespace, vocab, tokenizer, events, lastOp,
                cacheFile, dumped>>
pkgVars    == <<packages, name, ret>>
stopVars   == <<sentence_str, tokens, use_lemma, used, modelCalls, out>>
tokVars    == <<text, doc>>

(***************************************************************************)
(* Bounds of the model.                                                    *)
(***************************************************************************)
RecursionLimit == 3     \* frames the interpreter allows before RecursionError
MaxLex         == 2     \* lexemes a vocabulary can hold
MaxPkgs        == 2     \* installed distributions
MaxTokens      == 2     \* length of a token list given to remove_stopwords
MaxSentLen     == 3     \* length of a sentence string
MaxTextLen     == 4     \* length of a text given to the whitespace tokenizer

None == "None"

(***************************************************************************)
(* Model identifiers.                                                      *)
(***************************************************************************)
EN_CORE  == <<"en", "core", "web", "sm">>
EN       == <<"en">>
EN_COREF == <<"en", "coref", "sm">>
COREF_SM == <<"coref", "sm">>
COREF    == <<"coref">>
XX       == <<"xx">>

Ids == {EN_CORE, EN, EN_COREF, COREF_SM, COREF, XX}

\* the identifiers spacy_download can fetch
Downloadable == {EN_CORE, EN}

\* 'coref' in lang  (line 176)
HasCoref(id) == \E i \in DOMAIN id : id[i] = "coref"

\* lang.split('_')[0]  (line 180)
BaseStripLast(id) == IF Len(id) > 1 THEN SubSeq(id, 1, Len(id) - 1) ELSE id
Base(id) == <<Head(id)>>

\* spacy.load(lang): what the installation answers  (lines 178, 182, 196)
LoadOutcome(id) ==
    CASE id \notin DOMAIN pkgState -> "OSError"
      [] pkgState[id] = "ok"      -> "ok"
      [] pkgState[id] = "missing" -> "OSError"
      [] OTHER                    -> "Exception"

\* what a frame does with the outcome of its first spacy.load (lines 176-183)
AfterLoadCatchAll(id, oc) ==
    CASE oc = "ok"     -> "return"
      [] HasCoref(id)  -> "recurse"
      [] OTHER         -> "download"
AfterLoad(id, oc) ==
    CASE oc = "ok"      -> "return"
      [] HasCoref(id)   -> "recurse"
      [] oc = "OSError" -> "download"
      [] OTHER          -> "raise"

\* where the handler of OSError goes after spacy_download returned (lines 185-195)
AfterDownloadAgain(n) == IF n < 2 THEN "download" ELSE "link"
AfterDownload(n) == "link"

Event(op, id, oc) == [op |-> op, id |-> id, oc |-> oc]
NoResult == [kind |-> "none"]
Pipeline(id) == [kind |-> "pipeline", id |-> id]
Raised(what) == [kind |-> "raised", what |-> what]

NDownloads == Cardinality({i \in DOMAIN log : log[i].op = "download"})

(***************************************************************************)
(* load_lang_model, lines 164-196, one action per external call.           *)
(***************************************************************************)
\* SpacyAnnotator.load_lang_model(l, disable) called directly
CallLoadLangModel ==
    /\ pc \in {"idle", "done"}
    /\ \E l \in Ids :
        /\ lang' = l
        /\ cur' = l
    /\ caller' = "static"
    /\ depth' = 0
    /\ log' = <<>>
    /\ result' = NoResult
    /\ pc' = "try"
    /\ UNCHANGED <<pkgState, annotVars, pkgVars, stopVars, tokVars>>

\* lines 176-183: the frame's first spacy.load and its except clauses
TryLoad ==
    /\ pc = "try"
    /\ LET oc  == LoadOutcome(cur)
           nxt == AfterLoad(cur, oc)
       IN /\ log' = Append(log, Event("load", cur, oc))
          /\ CASE nxt = "return" ->
                    /\ result' = Pipeline(cur)
                    /\ pc' = "done"
                    /\ UNCHANGED <<cur, depth>>
               [] nxt = "recurse" /\ depth < RecursionLimit ->
                    /\ cur' = Base(cur)
                    /\ depth' = depth + 1
                    /\ pc' = "try"
                    /\ UNCHANGED result
               [] nxt = "recurse" /\ depth >= RecursionLimit ->
                    /\ result' = Raised("RecursionError")
                    /\ pc' = "done"
                    /\ UNCHANGED <<cur, depth>>
               [] nxt = "download" ->
                    /\ pc' = "download"
                    /\ UNCHANGED <<cur, depth, result>>
               [] OTHER ->
                    /\ result' = Raised("load")
                    /\ pc' = "done"
                    /\ UNCHANGED <<cur, depth>>
    /\ UNCHANGED <<pkgState, caller, lang, annotVars, pkgVars, stopVars, tokVars>>

\* line 185: spacy_download(lang); a fetched package is importable or not
Download ==
    /\ pc = "download"
    /\ IF cur \in Downloadable
       THEN /\ \E st \in {"ok", "broken"} : pkgState' = [pkgState EXCEPT ![cur] = st]
            /\ log' = Append(log, Event("download", cur, "ok"))
            /\ pc' = AfterDownload(NDownloads + 1)
            /\ UNCHANGED result
       ELSE /\ log' = Append(log, Event("download", cur, "failed"))
            /\ result' = Raised("download")
            /\ pc' = "done"
            /\ UNCHANGED pkgState
    /\ UNCHANGED <<caller, lang, cur, depth, annotVars, pkgVars, stopVars, tokVars>>

\* lines 192-195: get_package_path and link
Link ==
    /\ pc = "link"
    /\ \E ok \in BOOLEAN :
        IF ok
        THEN /\ log' = Append(log, Event("link", cur, "ok"))
             /\ pc' = "retry"
             /\ UNCHANGED result
        ELSE /\ log' = Append(log, Event("link", cur, "failed"))
             /\ result' = Raised("link")
             /\ pc' = "done"
    /\ UNCHANGED <<pkgState, caller, lang, cur, depth, annotVars, pkgVars, stopVars, tokVars>>

\* line 196: return spacy.load(lang, disable=disable)
RetryLoad ==
    /\ pc = "retry"
    /\ LET oc == LoadOutcome(cur)
       IN /\ log' = Append(log, Event("load", cur, oc))
          /\ result' = IF oc = "ok" THEN Pipeline(cur) ELSE Raised("load")
    /\ pc' = "done"
    /\ UNCHANGED <<pkgState, caller, lang, cur, depth, annotVars, pkgVars, stopVars, tokVars>>

(***************************************************************************)
(* The vocabulary and its cache file, lines 79-89.                         *)
(***************************************************************************)
Lexemes == 1 .. MaxLex

\* the vocabulary a pipeline ships with: the multi-language pipeline has none
BaseVocab(id) == IF Head(id) = "xx" THEN {} ELSE {1}

\* Vocab.to_bytes: the lexemes in increasing order, one byte each
RECURSIVE to_bytes(_)
to_bytes(V) ==
    IF V = {} THEN <<>>
    ELSE LET m == CHOOSE x \in V : \A y \in V : x <= y
         IN <<m>> \o to_bytes(V \ {m})

\* what Vocab.from_bytes accepts, and the vocabulary it restores
ValidBlob(b) ==
    /\ \A i \in DOMAIN b : b[i] \in Lexemes
    /\ \A i \in DOMAIN b : \A j \in DOMAIN b : i < j => b[i] < b[j]
from_bytes(b) == {b[i] : i \in DOMAIN b}

\* the pickle protocol marker a pickled object starts with
PROTO == 128

File(bytes) == [state |-> "file", bytes |-> bytes]
Missing     == [state |-> "missing", bytes |-> <<>>]
Unreadable  == [state |-> "unreadable", bytes |-> <<>>]

\* dump_caches(path, data): pickle data into the file
dump_caches(data) == File(<<PROTO>> \o data)

\* load_caches(path): unpickle the file, raising when it cannot
load_caches(f) ==
    IF f.state = "file" /\ f.bytes # <<>> /\ Head(f.bytes) = PROTO
    THEN [raised |-> FALSE, data |-> Tail(f.bytes)]
    ELSE [raised |-> TRUE, data |-> <<>>]

\* load(), lines 82-89, on a pipeline whose vocabulary is v
load(f, v) ==
    LET r == load_caches(f)
    IN  IF r.raised              THEN [raised |-> FALSE, vocab |-> v]   \* lines 85-87
        ELSE IF r.data = <<>>    THEN [raised |-> FALSE, vocab |-> v]   \* line 88
        ELSE IF ValidBlob(r.data) THEN [raised |-> FALSE, vocab |-> from_bytes(r.data)]
        ELSE [raised |-> TRUE, vocab |-> v]                            \* line 89 raises

\* lines 74-77: the tokenizer the two flags leave installed
TokenizerForElif(pre, ws) == IF ws THEN "whitespace" ELSE IF pre THEN "noop" ELSE "default"
TokenizerFor(pre, ws) == IF pre THEN "noop" ELSE IF ws THEN "whitespace" ELSE "default"

NoDump == [valid |-> FALSE, vocab |-> {}]

\* the identifiers annotators are constructed with
ConstructLangs == {EN_CORE, EN_COREF, XX}

\* what other programs leave in the cache file
ExternalFiles == {Missing, Unreadable, File(<<7>>), File(<<PROTO, 0>>), File(<<PROTO, 2>>)}

(***************************************************************************)
(* SpacyAnnotator.__init__, lines 60-77.                                   *)
(***************************************************************************)
\* line 66: the call of load_lang_model
Construct ==
    /\ \/ pc \in {"idle", "ready", "failed"}
       \/ pc = "done" /\ result.kind = "raised"
    /\ \E l \in ConstructLangs :
        /\ lang' = l
        /\ cur' = l
    /\ pre_tokenized' \in BOOLEAN
    /\ use_whitespace' \in BOOLEAN
    /\ caller' = "init"
    /\ depth' = 0
    /\ log' = <<>>
    /\ result' = NoResult
    /\ events' = <<"load_lang_model">>
    /\ lastOp' = "none"
    /\ pc' = "try"
    /\ UNCHANGED <<pkgState, vocab, tokenizer, cacheFile, dumped, pkgVars, stopVars, tokVars>>

\* lines 66 and 73: self.model is the pipeline returned; self.load()
InitLoad ==
    /\ pc = "done"
    /\ caller = "init"
    /\ result.kind = "pipeline"
    /\ LET r == load(cacheFile, BaseVocab(result.id))
       IN /\ vocab' = r.vocab
          /\ tokenizer' = [kind |-> "default", vocab |-> r.vocab]
          /\ pc' = IF r.raised THEN "failed" ELSE "tokenizer"
    /\ events' = Append(events, "load")
    /\ UNCHANGED <<pkgState, caller, lang, cur, depth, log, result, pre_tokenized,
                   use_whitespace, lastOp, cacheFile, dumped, pkgVars, stopVars, tokVars>>

\* lines 74-77
InstallTokenizer ==
    /\ pc = "tokenizer"
    /\ tokenizer' = [kind |-> TokenizerFor(pre_tokenized, use_whitespace), vocab |-> vocab]
    /\ events' = Append(events, "tokenizer")
    /\ lastOp' = "construct"
    /\ pc' = "ready"
    /\ UNCHANGED <<pkgState, caller, lang, cur, depth, log, result, pre_tokenized,
                   use_whitespace, vocab, cacheFile, dumped, pkgVars, stopVars, tokVars>>

\* process_text, line 100: the words of the sentence enter the vocabulary,
\* which the tokenizer shares
ProcessText ==
    /\ pc = "ready"
    /\ \E w \in Lexemes :
        /\ vocab' = vocab \cup {w}
        /\ tokenizer' = [tokenizer EXCEPT !.vocab = vocab \cup {w}]
    /\ lastOp' = "process_text"
    /\ UNCHANGED <<loaderVars, pre_tokenized, use_whitespace, events, cacheFile, dumped,
                   pkgVars, stopVars, tokVars>>

\* dump(), lines 79-80
Dump ==
    /\ pc = "ready"
    /\ cacheFile' = dump_caches(to_bytes(vocab))
    /\ dumped' = [valid |-> TRUE, vocab |-> vocab]
    /\ lastOp' = "dump"
    /\ UNCHANGED <<loaderVars, pre_tokenized, use_whitespace, vocab, tokenizer, events,
                   pkgVars, stopVars, tokVars>>

\* another program writes, removes or locks the cache file
ExternalWrite ==
    /\ pc \in {"idle", "ready", "failed"}
    /\ \E f \in ExternalFiles :
        /\ f # cacheFile
        /\ cacheFile' = f
    /\ dumped' = NoDump
    /\ UNCHANGED <<loaderVars, pre_tokenized, use_whitespace, vocab, tokenizer, events,
                   lastOp, pkgVars, stopVars, tokVars>>

(***************************************************************************)
(* Strings.                                                                *)
(***************************************************************************)
RECURSIVE SeqsUpTo(_, _)
SeqsUpTo(S, n) ==
    IF n = 0 THEN {<<>>}
    ELSE LET shorter == SeqsUpTo(S, n - 1)
         IN shorter \cup {Append(q, c) : q \in shorter, c \in S}

HasSpace(s) == \E i \in DOMAIN s : s[i] = " "
FirstSpace(s) == CHOOSE i \in DOMAIN s : s[i] = " " /\ \A j \in 1 .. (i - 1) : s[j] # " "

\* str.split(' ')  (line 45)
RECURSIVE splitDropEmpty(_)
splitDropEmpty(s) ==
    IF ~HasSpace(s) THEN (IF s = <<>> THEN <<>> ELSE <<s>>)
    ELSE LET i == FirstSpace(s)
         IN (IF i = 1 THEN <<>> ELSE <<SubSeq(s, 1, i - 1)>>)
                \o splitDropEmpty(SubSeq(s, i + 1, Len(s)))
RECURSIVE split(_)
split(s) ==
    IF ~HasSpace(s) THEN <<s>>
    ELSE LET i == FirstSpace(s)
         IN <<SubSeq(s, 1, i - 1)>> \o split(SubSeq(s, i + 1, Len(s)))

\* ' '.join(xs)  (line 120)
RECURSIVE join(_)
join(xs) ==
    IF xs = <<>> THEN <<>>
    ELSE IF Len(xs) = 1 THEN xs[1]
    ELSE xs[1] \o <<" ">> \o join(Tail(xs))

\* str.lower() and str.replace('-', '_')  (lines 135, 138)
lower(s) == [i \in DOMAIN s |-> IF s[i] = "A" THEN "a" ELSE IF s[i] = "B" THEN "b" ELSE s[i]]
replace(s) == [i \in DOMAIN s |-> IF s[i] = "-" THEN "_" ELSE s[i]]

(***************************************************************************)
(* WhitespaceTokenizer.__call__, lines 44-48.                              *)
(***************************************************************************)
Doc(words, spaces) == [words |-> words, spaces |-> spaces]
NoDoc == [words |-> <<>>, spaces |-> <<>>]

WhitespaceTokenizer(t) ==
    LET words == split(t)
    IN Doc(words, [i \in DOMAIN words |-> TRUE])

Texts == SeqsUpTo({"a", "b", " "}, MaxTextLen)

WhitespaceCall ==
    /\ doc = NoDoc
    /\ doc' = WhitespaceTokenizer(text)
    /\ UNCHANGED <<text, loaderVars, annotVars, pkgVars, stopVars>>

(***************************************************************************)
(* is_package, lines 123-140.                                              *)
(***************************************************************************)
\* line 138: the comparison of one distribution with the lowered name
Matches(package, n) == replace(lower(package)) = n

\* lines 135-140: the loop returns in its first iteration; with no
\* distribution the function ends without a return statement
is_package(nm, pkgs) ==
    LET n == lower(nm)
    IN  IF pkgs = <<>> THEN None
        ELSE IF Matches(pkgs[1], n) THEN "True"
        ELSE "False"

PkgNames == {<<"a", "-", "b">>, <<"A", "_", "b">>, <<"c">>, <<"d">>}
QueryNames == {<<"a", "_", "b">>, <<"A", "_", "B">>, <<"a", "-", "b">>, <<"c">>, <<"e">>}

\* pkg_resources.working_set.by_key.keys(): distinct names in some order
WorkingSets ==
    {q \in SeqsUpTo(PkgNames, MaxPkgs) : \A i \in DOMAIN q : \A j \in DOMAIN q : i # j => q[i] # q[j]}

IsPackageCall ==
    /\ ret = "unset"
    /\ ret' = is_package(name, packages)
    /\ UNCHANGED <<packages, name, loaderVars, annotVars, stopVars, tokVars>>

(***************************************************************************)
(* remove_stopwords, lines 102-121.                                        *)
(***************************************************************************)
Token(t, l, p) == [text |-> t, lemma_ |-> l, is_punct |-> p]

THE  == <<"t", "h", "e">>
US   == <<"u", "s">>
BE   == <<"b", "e">>
PRON == <<"-", "P", "-">>
CATS == <<"c", "a", "t", "s">>
CAT  == <<"c", "a", "t">>

\* ling_consts.STOP_WORDS_semantic
STOP_WORDS == {THE, US, BE}

Tokens == {Token(THE, THE, FALSE), Token(CATS, CAT, FALSE), Token(<<"s">>, BE, FALSE),
           Token(US, PRON, FALSE), Token(<<".">>, <<".">>, TRUE), Token(<<>>, <<>>, FALSE)}

\* the annotation the pipeline gives a word
Annotate(w) ==
    CASE w = US     -> Token(US, PRON, FALSE)
      [] w = <<"s">> -> Token(<<"s">>, BE, FALSE)
      [] OTHER      -> Token(w, w, FALSE)

\* self.model(sentence_str): tokenize with the installed tokenizer, annotate
Model(kind, s) ==
    LET words == IF kind = "whitespace" THEN split(s) ELSE splitDropEmpty(s)
    IN [i \in DOMAIN words |-> Annotate(words[i])]

Some(v) == [some |-> TRUE, v |-> v]
Absent  == [some |-> FALSE, v |-> <<>>]
Truthy(x) == x.some /\ x.v # <<>>

\* line 121: the tokens the comprehension keeps
KeepNoLemma(t) == ~t.is_punct /\ t.text \notin STOP_WORDS
Keep(t) == ~t.is_punct /\ t.text \notin STOP_WORDS /\ t.lemma_ \notin STOP_WORDS

\* line 119: getattr(token, attr)
GetAttr(t, lemma) == IF lemma THEN t.lemma_ ELSE t.text

\* lines 113-117: the tokens the comprehension runs over, and the calls of self.model
TokensUsed(kind, s, toks) ==
    IF ~Truthy(toks) /\ Truthy(s) THEN [toks |-> Model(kind, s.v), calls |-> 1]
    ELSE IF ~Truthy(toks) THEN [toks |-> <<>>, calls |-> 0]
    ELSE [toks |-> toks.v, calls |-> 0]

\* lines 119-121
remove_stopwords(kind, s, toks, lemma) ==
    LET kept == SelectSeq(TokensUsed(kind, s, toks).toks, Keep)
    IN join([i \in DOMAIN kept |-> GetAttr(kept[i], lemma)])

Sentences == SeqsUpTo({"u", "s", " "}, MaxSentLen)
TokenLists == SeqsUpTo(Tokens, MaxTokens)

RemoveStopwordsCall ==
    /\ out = Absent
    /\ used' = TokensUsed(tokenizer.kind, sentence_str, tokens).toks
    /\ modelCalls' = TokensUsed(tokenizer.kind, sentence_str, tokens).calls
    /\ out' = Some(remove_stopwords(tokenizer.kind, sentence_str, tokens, use_lemma))
    /\ UNCHANGED <<sentence_str, tokens, use_lemma, loaderVars, pre_tokenized, use_whitespace,
                   vocab, tokenizer, events, lastOp, cacheFile, dumped, pkgVars, tokVars>>

(***************************************************************************)
(* Specifications.                                                         *)
(***************************************************************************)
LoaderIdle ==
    /\ pc = "idle" /\ caller = "static" /\ lang = EN_CORE /\ cur = EN_CORE
    /\ depth = 0 /\ log = <<>> /\ result = NoResult
AnnotIdle ==
    /\ pre_tokenized = FALSE /\ use_whitespace = FALSE /\ vocab = {}
    /\ tokenizer = [kind |-> "default", vocab |-> {}]
    /\ events = <<>> /\ lastOp = "none" /\ cacheFile = Missing /\ dumped = NoDump
PkgIdle  == packages = <<>> /\ name = <<>> /\ ret = "unset"
StopIdle ==
    /\ sentence_str = Absent /\ tokens = Absent /\ use_lemma = TRUE
    /\ used = <<>> /\ modelCalls = 0 /\ out = Absent
TokIdle  == text = <<>> /\ doc = NoDoc

\* installations an annotator is constructed in
Installations ==
    {[i \in Ids |-> "ok"],
     [i \in Ids |-> IF i = EN_CORE THEN "missing" ELSE "ok"],
     [i \in Ids |-> IF i = EN_COREF THEN "broken" ELSE IF i = XX THEN "missing" ELSE "ok"]}

\* the annotator: construction, process_text, dump, and the cache file
Init ==
    /\ pkgState \in Installations
    /\ LoaderIdle /\ AnnotIdle /\ PkgIdle /\ StopIdle /\ TokIdle
Next ==
    \/ Construct \/ TryLoad \/ Download \/ Link \/ RetryLoad
    \/ InitLoad \/ InstallTokenizer \/ ProcessText \/ Dump \/ ExternalWrite
Spec == Init /\ [][Next]_vars

\* load_lang_model called on every identifier in every installation
InitLoader ==
    /\ pkgState \in [Ids -> {"ok", "missing", "broken"}]
    /\ LoaderIdle /\ AnnotIdle /\ PkgIdle /\ StopIdle /\ TokIdle
NextLoader == CallLoadLangModel \/ TryLoad \/ Download \/ Link \/ RetryLoad
SpecLoader == InitLoader /\ [][NextLoader]_vars

\* is_package on every working set and name
InitPkg ==
    /\ packages \in WorkingSets
    /\ name \in QueryNames
    /\ ret = "unset"
    /\ pkgState = [i \in Ids |-> "ok"]
    /\ LoaderIdle /\ AnnotIdle /\ StopIdle /\ TokIdle
NextPkg == IsPackageCall
SpecPkg == InitPkg /\ [][NextPkg]_vars

\* remove_stopwords on every sentence, token list and flag
InitStop ==
    /\ sentence_str \in {Absent} \cup {Some(s) : s \in Sentences}
    /\ tokens \in {Absent} \cup {Some(t) : t \in TokenLists}
    /\ use_lemma \in BOOLEAN
    /\ used = <<>> /\ modelCalls = 0 /\ out = Absent
    /\ tokenizer \in {[kind |-> k, vocab |-> {}] : k \in {"default", "whitespace"}}
    /\ pre_tokenized = FALSE /\ use_whitespace = FALSE /\ vocab = {}
    /\ events = <<>> /\ lastOp = "none" /\ cacheFile = Missing /\ dumped = NoDump
    /\ pkgState = [i \in Ids |-> "ok"]
    /\ LoaderIdle /\ PkgIdle /\ TokIdle
NextStop == RemoveStopwordsCall
SpecStop == InitStop /\ [][NextStop]_vars

\* the whitespace tokenizer on every text
InitTok ==
    /\ text \in Texts
    /\ doc = NoDoc
    /\ pkgState = [i \in Ids |-> "ok"]
    /\ LoaderIdle /\ AnnotIdle /\ PkgIdle /\ StopIdle
NextTok == WhitespaceCall
SpecTok == InitTok /\ [][NextTok]_vars

(***************************************************************************)
(* Properties of load_lang_model (SpecLoader).                             *)
(***************************************************************************)
Last(q) == q[Len(q)]
IsLoad(e)      == e.op = "load"
FailedLoad(e)  == e.op = "load" /\ e.oc # "ok"
CorefSeg(id)   == \E i \in DOMAIN id : id[i] = "coref"
Finished       == pc = "done" /\ result.kind # "none"

\* C1: a call on an identifier without 'coref' whose first load is not found
\* and that can be downloaded makes exactly one download, then the link
\* step, then (the link made) exactly one more load of the same identifier,
\* whose outcome is what the call returns or raises; no call downloads twice.
C1_OneDownloadLinkRetry ==
    /\ Cardinality({i \in DOMAIN log : log[i].op = "download"}) <= 1
    /\ (/\ Finished
        /\ ~CorefSeg(lang)
        /\ lang \in Downloadable
        /\ log[1] = Event("load", lang, "OSError"))
       => /\ Len(log) \in {3, 4}
          /\ log[2] = Event("download", lang, "ok")
          /\ log[3].op = "link" /\ log[3].id = lang
          /\ log[3].oc = "ok" =>
                /\ Len(log) = 4
                /\ log[4].op = "load" /\ log[4].id = lang
                /\ result = IF log[4].oc = "ok" THEN Pipeline(lang) ELSE Raised("load")
          /\ log[3].oc # "ok" => Len(log) = 3 /\ result = Raised("link")

C1_Witness ==
    /\ Finished
    /\ lang = EN_CORE
    /\ Len(log) = 4
    /\ log[1] = Event("load", EN_CORE, "OSError")
    /\ log[2].op = "download"
    /\ log[4] = Event("load", EN_CORE, "ok")
    /\ result = Pipeline(EN_CORE)

\* C2, as claimed: a call on an identifier with 'coref' whose direct load
\* fails loads the substring before the first underscore and returns a
\* pipeline, raising nothing.
C2_CorefFallbackNeverRaises ==
    (Finished /\ CorefSeg(lang) /\ FailedLoad(log[1]))
        => /\ Len(log) >= 2
           /\ log[2].op = "load" /\ log[2].id = <<lang[1]>>
           /\ result.kind = "pipeline"

\* C2, amended: the failure of the direct load of an identifier with 'coref'
\* is never raised: the next external call is a load of the substring before
\* the first underscore (or the interpreter's recursion limit ends the call);
\* and the call returns a pipeline, that of the base identifier, exactly
\* when a load of the base identifier succeeds.
C2_CorefFallbackToBase ==
    /\ \A i \in DOMAIN log :
        (FailedLoad(log[i]) /\ CorefSeg(log[i].id))
            => /\ i < Len(log) => log[i + 1].op = "load" /\ log[i + 1].id = <<log[i].id[1]>>
               /\ i = Len(log) =>
                    \/ pc = "try" /\ cur = <<log[i].id[1]>>
                    \/ pc = "done" /\ result = Raised("RecursionError") /\ depth = RecursionLimit
    /\ (Finished /\ CorefSeg(lang) /\ FailedLoad(log[1]))
        => /\ result.kind = "pipeline" <=> Last(log) = Event("load", <<lang[1]>>, "ok")
           /\ result.kind = "pipeline" => result = Pipeline(<<lang[1]>>)

C2_Witness ==
    /\ Finished
    /\ lang = EN_COREF
    /\ log = <<Event("load", EN_COREF, "OSError"), Event("load", EN, "ok")>>
    /\ result = Pipeline(EN)

\* C9, as claimed: for every identifier, a load that fails with anything but
\* not-found ends the call with that failure: nothing is downloaded, linked
\* or loaded after it.
C9_OtherFailurePropagates ==
    \A i \in DOMAIN log :
        (IsLoad(log[i]) /\ log[i].oc = "Exception")
            => i = Len(log) /\ pc = "done" /\ result = Raised("load")

\* C9, amended: for every identifier without 'coref' (the base identifier of
\* a fallback included), only a not-found first load is followed by the
\* download, and then by the link and the retried load; any other failure of
\* the load ends the call with that failure; a failed download, link or
\* retried load ends the call with that failure.  (A failed direct load of
\* an identifier with 'coref' is caught whatever its kind.)
C9_OnlyNotFoundDownloads ==
    /\ \A i \in DOMAIN log :
        LET e == log[i]
        IN /\ (IsLoad(e) /\ e.oc = "Exception" /\ ~CorefSeg(e.id))
                => i = Len(log) /\ pc = "done" /\ result = Raised("load")
           /\ e.op = "download"
                => /\ i > 1
                   /\ log[i - 1] = Event("load", e.id, "OSError")
                   /\ ~CorefSeg(e.id)
           /\ e.op = "link" => i > 1 /\ log[i - 1] = Event("download", e.id, "ok")
           /\ (e.op \in {"download", "link"} /\ e.oc = "failed")
                => i = Len(log) /\ pc = "done" /\ result = Raised(e.op)
           /\ (FailedLoad(e) /\ i > 1 /\ log[i - 1].op = "link")
                => i = Len(log) /\ pc = "done" /\ result = Raised("load")
           /\ (IsLoad(e) /\ e.oc = "OSError" /\ ~CorefSeg(e.id) /\ (i = 1 \/ log[i - 1].op # "link"))
                => IF i < Len(log) THEN log[i + 1].op = "download" /\ log[i + 1].id = e.id
                   ELSE pc = "download"

C9_Witness ==
    /\ Finished
    /\ lang = EN
    /\ log = <<Event("load", EN, "Exception")>>
    /\ result = Raised("load")

\* C10, as claimed: a call recurses at most once, so it makes at most three
\* load attempts, whatever the identifier.
C10_RecursesAtMostOnce ==
    /\ depth <= 1
    /\ Cardinality({i \in DOMAIN log : log[i].op = "load"}) <= 3

(***************************************************************************)
(* Properties of the annotator (Spec).                                     *)
(***************************************************************************)
Constructed == pc = "ready" /\ lastOp = "construct"

\* C3, as claimed: an annotator constructed after a dump(), with no other
\* write to the cache file in between, holds the vocabulary that was dumped,
\* also when that vocabulary serializes to no bytes.
C3_DumpLoadRoundTrip ==
    (Constructed /\ dumped.valid) => vocab = dumped.vocab

\* C4, as claimed: load() returns normally whatever the cache file holds, so
\* construction never fails in load().
C4_LoadNeverFatal ==
    pc # "failed"

\* C8: construction runs load_lang_model, then load(), then the tokenizer
\* installation; the tokenizer it leaves is the pass-through one when
\* pre_tokenized is set (use_whitespace set or not), the whitespace one when
\* only use_whitespace is set, the pipeline's own otherwise; and it is bound
\* to the vocabulary as load() left it.
C8_ConstructionOrderAndTokenizer ==
    /\ pc \in {"try", "download", "link", "retry", "done"} => events = <<"load_lang_model">>
    /\ pc \in {"tokenizer", "failed"} => events = <<"load_lang_model", "load">>
    /\ pc = "tokenizer" => tokenizer.kind = "default"
    /\ Constructed =>
        /\ events = <<"load_lang_model", "load", "tokenizer">>
        /\ result.kind = "pipeline"
        /\ pre_tokenized => tokenizer.kind = "noop"
        /\ (use_whitespace /\ ~pre_tokenized) => tokenizer.kind = "whitespace"
        /\ (~use_whitespace /\ ~pre_tokenized) => tokenizer.kind = "default"
        /\ tokenizer.vocab = vocab

C8_Witness ==
    /\ Constructed
    /\ pre_tokenized /\ use_whitespace
    /\ tokenizer.kind = "noop"
    /\ vocab = {2}

(***************************************************************************)
(* Properties of is_package (SpecPkg).                                     *)
(***************************************************************************)
\* C5, as claimed: is_package answers true exactly when some installed
\* distribution, at any place of the enumeration, matches the name, and
\* false otherwise, also with no distribution installed (where the None the
\* function ends with is taken for false).
C5_IsPackageScansAll ==
    ret # "unset" =>
        IF \E i \in DOMAIN packages : replace(lower(packages[i])) = lower(name)
        THEN ret = "True"
        ELSE ret \in {"False", None}

(***************************************************************************)
(* Properties of remove_stopwords (SpecStop) and of the whitespace         *)
(* tokenizer (SpecTok).                                                    *)
(***************************************************************************)
\* the place before the k-th of the strings xs in their single-space join
RECURSIVE Offset(_, _)
Offset(xs, k) == IF k = 1 THEN 0 ELSE Offset(xs, k - 1) + Len(xs[k - 1]) + 1

\* s is the strings xs, in order, with one space between neighbours
IsSpaceJoin(s, xs) ==
    /\ Len(s) = IF xs = <<>> THEN 0 ELSE Offset(xs, Len(xs) + 1) - 1
    /\ \A k \in DOMAIN xs :
        /\ Offset(xs, k) + Len(xs[k]) <= Len(s)
        /\ SubSeq(s, Offset(xs, k) + 1, Offset(xs, k) + Len(xs[k])) = xs[k]
        /\ k < Len(xs) => s[Offset(xs, k) + Len(xs[k]) + 1] = " "

\* C6: the result is the single-space join, in input order, of the lemma
\* (use_lemma) or text of exactly the tokens that are not punctuation and
\* whose text and lemma are both no stop words; it is empty when neither
\* tokens nor a non-empty sentence is given; the pipeline runs on the
\* sentence only when no token is given.
C6_RemoveStopwords ==
    out.some =>
        LET given == tokens.some /\ tokens.v # <<>>
            surv  == SelectSeq(used, LAMBDA t : /\ ~t.is_punct
                                                 /\ t.text \notin STOP_WORDS
                                                 /\ t.lemma_ \notin STOP_WORDS)
            attrs == [i \in DOMAIN surv |-> IF use_lemma THEN surv[i].lemma_ ELSE surv[i].text]
        IN /\ IsSpaceJoin(out.v, attrs)
           /\ given => used = tokens.v /\ modelCalls = 0
           /\ modelCalls > 0 => ~given /\ sentence_str.some /\ sentence_str.v # <<>>
           /\ (~given /\ (~sentence_str.some \/ sentence_str.v = <<>>)) => out.v = <<>> /\ modelCalls = 0

C6_Witness ==
    /\ out.some
    /\ tokens = Some(<<Token(CATS, CAT, FALSE), Token(US, PRON, FALSE)>>)
    /\ use_lemma
    /\ out.v = CAT

\* C7: the whitespace tokenizer gives (number of spaces + 1) words, the
\* segments of the text between its spaces in order, each owning a space.
C7_WhitespaceSegments ==
    doc # NoDoc =>
        /\ Len(doc.words) = Cardinality({i \in DOMAIN text : text[i] = " "}) + 1
        /\ \A k \in DOMAIN doc.words : \A i \in DOMAIN doc.words[k] : doc.words[k][i] # " "
        /\ IsSpaceJoin(text, doc.words)
        /\ DOMAIN doc.spaces = DOMAIN doc.words
        /\ \A k \in DOMAIN doc.spaces : doc.spaces[k] = TRUE

C7_Witness ==
    /\ text = <<" ", "a", " ", " ">>
    /\ doc.words = <<<<>>, <<"a">>, <<>>, <<>>>>
    /\ doc.spaces = <<TRUE, TRUE, TRUE, TRUE>>

====
